---------------------------- MODULE Spec2Model ----------------------------
(***************************************************************************)
(* Model of the gnark groth16 curve-dispatch facade (package groth16) and *)
(* of the R1CS solver hints (package cs, bw6-761 scalar field).           *)
(*                                                                         *)
(* Two specifications share the module:                                    *)
(*   SpecHints   a caller loads an input list and calls a hint on it,      *)
(*               possibly twice; ToBinary calls ithBit once per bit.       *)
(*   SpecFacade  a caller makes one call of the groth16 facade.            *)
(***************************************************************************)
EXTENDS Integers, Sequences, FiniteSets, TLC

VARIABLES
    hint,       \* name of the hint the caller is calling on `inputs`, or "none"
    inputs0,    \* the caller's input list as it was loaded
    inputs,     \* the caller's input list now (hints receive the slice itself)
    results,    \* the (value, error) pairs returned so far, in call order
    dec,        \* the last ToBinary decomposition: value, width, bit wires
    op,         \* the facade function last called, or "none"
    args,       \* its arguments
    ret,        \* what it returned, or that it panicked
    backend,    \* the per-curve backend functions it invoked, in order
    e2op,       \* the E2 method last called, or "none"
    e2args,     \* its receiver, operands and extension parameter
    e2heap0,    \* the E2 objects before the call
    e2heap,     \* the E2 objects after the call
    e2sat,      \* whether the constraints the call emitted can be satisfied
    mlpc,       \* MillerLoop: the statement it is at
    mlAte,      \* pairingInfo.AteLoop
    mlBin,      \* ateLoopBin
    mlI,        \* the loop index i
    mlIters,    \* iterations begun so far
    mlOps,      \* the operations of the current iteration, in order
    mlMult,     \* the multiple of Q that qProj holds
    genMain,    \* generator main: the statement it is at
    genK,       \* the index of the loop over datas
    genWg,      \* the WaitGroup counter
    genG,       \* the goroutines: state, next step, argument d
    genFiles,   \* the files each goroutine has written
    genFmt,     \* whether gofmt has been started
    genProc     \* the process: running, exited or crashed

hintVars   == <<hint, inputs0, inputs, results, dec>>
facadeVars == <<op, args, ret, backend>>
e2Vars     == <<e2op, e2args, e2heap0, e2heap, e2sat>>
mlVars     == <<mlpc, mlAte, mlBin, mlI, mlIters, mlOps, mlMult>>
genVars    == <<genMain, genK, genWg, genG, genFiles, genFmt, genProc>>
vars       == <<hint, inputs0, inputs, results, dec, op, args, ret, backend,
               e2op, e2args, e2heap0, e2heap, e2sat,
               mlpc, mlAte, mlBin, mlI, mlIters, mlOps, mlMult,
               genMain, genK, genWg, genG, genFiles, genFmt, genProc>>

---------------------------------------------------------------------------
(***************************************************************************)
(* fr.Element: the scalar field, scaled down.                              *)
(* The source uses the bw6-761 scalar field: 6 limbs of 64 bits and a      *)
(* 377-bit prime.  The model keeps the representation (limbs in Montgomery *)
(* form, R = 2^(WordBits*Limbs)) with a small word, few limbs and a small  *)
(* prime modulus.                                                          *)
(***************************************************************************)
WordBits == 3
Limbs == 2
QLow == 17
MaxInputs == 3
MaxBits == 5
MaxCalls == 2

RECURSIVE Pow2(_)
Pow2(n) == IF n = 0 THEN 1 ELSE 2 * Pow2(n - 1)

Word == Pow2(WordBits)
R == Pow2(WordBits * Limbs)

IsPrime(p) == p > 1 /\ \A d \in 2..(p - 1) : p % d # 0

\* fr.Modulus(): the least prime not below QLow (odd, below R).
Modulus == CHOOSE p \in QLow..(2 * QLow) :
              IsPrime(p) /\ \A r \in QLow..(p - 1) : ~IsPrime(r)

Fq == 0..(Modulus - 1)

\* -Modulus^(-1) mod 2^WordBits, the per-word Montgomery constant.
qInvNeg == CHOOSE k \in 0..(Word - 1) : (k * Modulus + 1) % Word = 0

\* Montgomery reduction, one word at a time: t <- (t + m*q) / 2^WordBits.
RECURSIVE redcLoop(_, _)
redcLoop(t, n) ==
    IF n = 0 THEN t
    ELSE LET m == ((t % Word) * qInvNeg) % Word
         IN  redcLoop((t + m * Modulus) \div Word, n - 1)

redc(t) == LET u == redcLoop(t, Limbs)
           IN  IF u >= Modulus THEN u - Modulus ELSE u

\* z.FromMont(): the limbs now hold the regular (canonical) value.
FromMont(z) == redc(z)

\* z.Mul(x, y), z.Square(x) on Montgomery forms.
MontMul(x, y) == redc(x * y)

\* fr.One(): 1 in Montgomery form.
One == R % Modulus

\* fr.Element{}: the zero value.
Zero == 0

\* z.Sub(x, y)
FrSub(x, y) == IF x >= y THEN x - y ELSE x - y + Modulus

\* big.Int.BitLen and big.Int.Bit
RECURSIVE BitLen(_)
BitLen(e) == IF e = 0 THEN 0 ELSE 1 + BitLen(e \div 2)

BigBit(e, i) == (e \div Pow2(i)) % 2

\* z.Exp(x, exponent): left-to-right square and multiply.
RECURSIVE expLoop(_, _, _, _)
expLoop(z, x, e, i) ==
    IF i < 0 THEN z
    ELSE LET s == MontMul(z, z)
         IN  expLoop(IF BigBit(e, i) = 1 THEN MontMul(s, x) ELSE s, x, e, i - 1)

FrExp(x, e) == IF e = 0 THEN One ELSE expLoop(x, x, e, BitLen(e) - 2)

\* z.IsUint64(): every limb but the first is zero.
IsUint64(z) == z \div Word = 0

\* z[0]: the first limb.
Limb0(z) == z % Word

\* z.Bit(i): 0 past the last limb, else bit i%WordBits of limb i/WordBits.
FrBit(z, i) ==
    LET j == i \div WordBits
    IN  IF j >= Limbs THEN 0
        ELSE LET limb == (z \div Pow2(WordBits * j)) % Word
             IN  (limb \div Pow2(i % WordBits)) % 2

---------------------------------------------------------------------------
(***************************************************************************)
(* The hints.  A hint returns (value, error) and is handed the caller's    *)
(* slice, so the model returns the slice's contents after the call too.    *)
(***************************************************************************)
\* var qMinusOne, set by init()
qMinusOne == Modulus - 1

\* Mutant: the subtraction the other way round, v - 1.
powModulusMinusOneSwapped(in) ==
    IF Len(in) # 1
    THEN [val |-> Zero, err |-> "powModulusMinusOne expects one input", inputs |-> in]
    ELSE LET v == FrExp(in[1], qMinusOne)
         IN  [val |-> FrSub(v, One), err |-> "nil", inputs |-> in]

\* Mutant: only an empty list is refused.
powModulusMinusOneAnyLength(in) ==
    IF Len(in) < 1
    THEN [val |-> Zero, err |-> "powModulusMinusOne expects one input", inputs |-> in]
    ELSE LET v == FrExp(in[1], qMinusOne)
         IN  [val |-> FrSub(One, v), err |-> "nil", inputs |-> in]

powModulusMinusOne(in) ==
    IF Len(in) # 1
    THEN [val |-> Zero, err |-> "powModulusMinusOne expects one input", inputs |-> in]
    ELSE LET v == FrExp(in[1], qMinusOne)
         IN  [val |-> FrSub(One, v), err |-> "nil", inputs |-> in]

\* Mutant: the bit is read from the Montgomery form of inputs[0].
ithBitOfMontgomeryForm(in) ==
    IF Len(in) # 2
    THEN [val |-> Zero,
          err |-> "ithBit expects 2 inputs; inputs[0] == value, inputs[1] == bit position",
          inputs |-> in]
    ELSE LET after == <<in[1], FromMont(in[2])>>
         IN  IF ~IsUint64(after[2])
             THEN [val |-> Zero,
                   err |-> "ithBit expects bit position (input[1]) to fit on one word",
                   inputs |-> after]
             ELSE IF FrBit(after[1], Limb0(after[2])) = 0
                  THEN [val |-> Zero, err |-> "nil", inputs |-> after]
                  ELSE [val |-> One, err |-> "nil", inputs |-> after]

ithBit(in) ==
    IF Len(in) # 2
    THEN [val |-> Zero,
          err |-> "ithBit expects 2 inputs; inputs[0] == value, inputs[1] == bit position",
          inputs |-> in]
    ELSE LET after == <<FromMont(in[1]), FromMont(in[2])>>
         IN  IF ~IsUint64(after[2])
             THEN [val |-> Zero,
                   err |-> "ithBit expects bit position (input[1]) to fit on one word",
                   inputs |-> after]
             ELSE IF FrBit(after[1], Limb0(after[2])) = 0
                  THEN [val |-> Zero, err |-> "nil", inputs |-> after]
                  ELSE [val |-> One, err |-> "nil", inputs |-> after]

\* The element holding x: x in Montgomery form (x*R mod q).
ToMont(x) == (x * R) % Modulus

\* Input lists: every list of one or two field elements, and a few lists of
\* the other lengths.
Sample == {Zero, One, ToMont(Modulus - 1)}

InputLists ==
    {<<>>} \cup [1..1 -> Fq] \cup [1..2 -> Fq]
    \cup UNION {[1..n -> Sample] : n \in 3..MaxInputs}

\* ToBinary(x, n): wire b_i is bound by ithBit on a fresh list (x, i).
ToBinary(x, n) == [i \in 1..n |-> ithBit(<<ToMont(x), ToMont(i - 1)>>)]

NoDec == [x |-> 0, n |-> 0, bits |-> <<>>]

HintIdle ==
    /\ hint = "none"
    /\ inputs0 = <<>>
    /\ inputs = <<>>
    /\ results = <<>>
    /\ dec = NoDec

\* The caller builds an input list.
Load ==
    \E in \in InputLists :
        /\ hint' = "none"
        /\ inputs0' = in
        /\ inputs' = in
        /\ results' = <<>>
        /\ dec' = NoDec
        /\ UNCHANGED <<facadeVars, e2Vars, mlVars, genVars>>

\* The caller calls powModulusMinusOne on its list (a second call is on the
\* same list).
CallPowModulusMinusOne ==
    /\ hint \in {"none", "powModulusMinusOne"}
    /\ Len(results) < MaxCalls
    /\ LET r == powModulusMinusOne(inputs)
       IN  /\ hint' = "powModulusMinusOne"
           /\ inputs' = r.inputs
           /\ results' = Append(results, [val |-> r.val, err |-> r.err])
    /\ UNCHANGED <<inputs0, dec>>
    /\ UNCHANGED <<facadeVars, e2Vars, mlVars, genVars>>

\* The caller calls ithBit on its list (a second call is on the same list).
CallIthBit ==
    /\ hint \in {"none", "ithBit"}
    /\ Len(results) < MaxCalls
    /\ LET r == ithBit(inputs)
       IN  /\ hint' = "ithBit"
           /\ inputs' = r.inputs
           /\ results' = Append(results, [val |-> r.val, err |-> r.err])
    /\ UNCHANGED <<inputs0, dec>>
    /\ UNCHANGED <<facadeVars, e2Vars, mlVars, genVars>>

\* The solver binds the n bit wires of x.
Decompose ==
    \E x \in Fq, n \in 0..MaxBits :
        /\ dec' = [x |-> x, n |-> n, bits |-> ToBinary(x, n)]
        /\ hint' = "none"
        /\ inputs0' = <<>>
        /\ inputs' = <<>>
        /\ results' = <<>>
        /\ UNCHANGED <<facadeVars, e2Vars, mlVars, genVars>>

---------------------------------------------------------------------------
(***************************************************************************)
(* The groth16 facade.  An artifact is known by its dynamic type: the      *)
(* import alias of its package and the type's name.                        *)
(***************************************************************************)
MaxPublic == 2
MaxSecret == 1
MaxElems == 3
MaxForce == 2

T(pkg, name) == [pkg |-> pkg, name |-> name]

\* The nil interface value, and a value of a type the facade does not know.
NilType     == T("nil", "nil")
ForeignType == T("other", "other")
NilArtifact == [type |-> NilType]

Aliases == {"bls377", "bls381", "bn256", "bw761"}

\* The backend directory each alias is imported from.
ImportDir(a) ==
    CASE a = "bls377" -> "bls12-377"
      [] a = "bls381" -> "bls12-381"
      [] a = "bn256"  -> "bn254"
      [] a = "bw761"  -> "bw6-761"

R1CSType(a)  == T("backend_" \o a, "R1CS")
PKType(a)    == T("groth16_" \o a, "ProvingKey")
VKType(a)    == T("groth16_" \o a, "VerifyingKey")
ProofType(a) == T("groth16_" \o a, "Proof")

Returned(val, err, calls) ==
    [ret |-> [panic |-> "none", val |-> val, err |-> err], backend |-> calls]

Panicked(msg, calls) ==
    [ret |-> [panic |-> msg, val |-> NilArtifact, err |-> "nil"], backend |-> calls]

\* x.(*T) without the comma-ok form: a run-time panic unless x holds a *T.
TypeAssertPanic == "interface conversion"

\* w.FromPublicAssignment / w.FromFullAssignment: every input of the class
\* must be assigned.
FromPublicAssignment(w) ==
    IF w.public THEN "nil" ELSE "missing assignment"

FromFullAssignment(w) ==
    IF w.public /\ w.secret THEN "nil" ELSE "missing assignment"

\* w.LimitReadFrom(r, expectedSize): the stream is uint32 nbElements followed
\* by the elements; on success w holds the first nbElements of them, in the
\* order of the stream, and what follows them is not read.
LimitReadFrom(r, expectedSize) ==
    IF r.nbElements # expectedSize
    THEN [err |-> "SizeMismatch", w |-> <<>>]
    ELSE IF Len(r.elems) < r.nbElements
    THEN [err |-> "SerializationError", w |-> <<>>]
    ELSE [err |-> "nil", w |-> [i \in 1..r.nbElements |-> r.elems[i]]]

\* Whether the witness vector w, read as [public | secret] with nbInputs
\* public inputs first, satisfies the circuit at hand: the circuits tried
\* require every public input to be 1 and every secret input to be 0.
SatisfiedBy(w, nbInputs) ==
    \A i \in 1..Len(w) : w[i] = (IF i <= nbInputs THEN 1 ELSE 0)

\* groth16_<a>.Verify(proof, vk, w)
backendVerify(a, proof, satisfies) ==
    Returned(NilArtifact,
             IF proof.valid /\ satisfies THEN "nil" ELSE "InvalidProof",
             <<[pkg |-> "groth16_" \o a, fn |-> "Verify", force |-> FALSE]>>)

\* groth16_<a>.Prove(r1cs, pk, w, force)
backendProve(a, satisfies, force) ==
    LET call == <<[pkg |-> "groth16_" \o a, fn |-> "Prove", force |-> force]>>
    IN  IF ~satisfies /\ ~force
        THEN Returned(NilArtifact, "UnsatisfiedConstraint", call)
        ELSE Returned([type |-> ProofType(a), valid |-> satisfies], "nil", call)

\* One case of Verify's type switch: the witness package's alias, the alias
\* of the asserted verifying key type, the alias of the backend called.
verifyCase(wa, vka, ga, proof, vk, publicWitness) ==
    LET err == FromPublicAssignment(publicWitness)
    IN  IF err # "nil" THEN Returned(NilArtifact, err, <<>>)
        ELSE IF vk.type # VKType(vka) THEN Panicked(TypeAssertPanic, <<>>)
        ELSE backendVerify(ga, proof, publicWitness.satisfies)

Verify(proof, vk, publicWitness) ==
    CASE proof.type = ProofType("bls377") ->
             verifyCase("bls377", "bls377", "bls377", proof, vk, publicWitness)
      [] proof.type = ProofType("bls381") ->
             verifyCase("bls381", "bls381", "bls381", proof, vk, publicWitness)
      [] proof.type = ProofType("bn256") ->
             verifyCase("bn256", "bn256", "bn256", proof, vk, publicWitness)
      [] proof.type = ProofType("bw761") ->
             verifyCase("bw761", "bw761", "bw761", proof, vk, publicWitness)
      [] OTHER -> Panicked("unrecognized R1CS curve type", <<>>)

\* One case of ReadAndVerify's type switch (on the verifying key).
readAndVerifyCase(wa, pa, ga, proof, vk, publicWitness) ==
    LET rd == LimitReadFrom(publicWitness, vk.sizePublic)
    IN  IF rd.err # "nil" THEN Returned(NilArtifact, rd.err, <<>>)
        ELSE IF proof.type # ProofType(pa) THEN Panicked(TypeAssertPanic, <<>>)
        ELSE backendVerify(ga, proof, SatisfiedBy(rd.w, vk.sizePublic))

ReadAndVerify(proof, vk, publicWitness) ==
    CASE vk.type = VKType("bls377") ->
             readAndVerifyCase("bls377", "bls377", "bls377", proof, vk, publicWitness)
      [] vk.type = VKType("bls381") ->
             readAndVerifyCase("bls381", "bls381", "bls381", proof, vk, publicWitness)
      [] vk.type = VKType("bn256") ->
             readAndVerifyCase("bn256", "bn256", "bn256", proof, vk, publicWitness)
      [] vk.type = VKType("bw761") ->
             readAndVerifyCase("bw761", "bw761", "bw761", proof, vk, publicWitness)
      [] OTHER -> Panicked("unrecognized R1CS curve type", <<>>)

\* Mutant: the last force value is passed.
forceFlagLast(force) == IF Len(force) > 0 THEN force[Len(force)] ELSE FALSE

\* _force := false; if len(force) > 0 { _force = force[0] }
forceFlag(force) == IF Len(force) > 0 THEN force[1] ELSE FALSE

\* Mutant: force also skips a witness that could not be built.
proveCaseForceSkipsWitness(wa, pka, ga, pk, witness, force) ==
    LET err == FromFullAssignment(witness)
    IN  IF err # "nil" /\ ~force THEN Returned(NilArtifact, err, <<>>)
        ELSE IF pk.type # PKType(pka) THEN Panicked(TypeAssertPanic, <<>>)
        ELSE backendProve(ga, witness.satisfies, force)

\* One case of Prove's type switch (on the R1CS).
proveCase(wa, pka, ga, pk, witness, force) ==
    LET err == FromFullAssignment(witness)
    IN  IF err # "nil" THEN Returned(NilArtifact, err, <<>>)
        ELSE IF pk.type # PKType(pka) THEN Panicked(TypeAssertPanic, <<>>)
        ELSE backendProve(ga, witness.satisfies, force)

Prove(r1cs, pk, witness, force) ==
    LET f == forceFlag(force)
    IN  CASE r1cs.type = R1CSType("bls377") ->
                 proveCase("bls377", "bls377", "bls377", pk, witness, f)
          [] r1cs.type = R1CSType("bls381") ->
                 proveCase("bls381", "bls381", "bls381", pk, witness, f)
          [] r1cs.type = R1CSType("bn256") ->
                 proveCase("bn256", "bn256", "bn256", pk, witness, f)
          [] r1cs.type = R1CSType("bw761") ->
                 proveCase("bw761", "bw761", "bw761", pk, witness, f)
          [] OTHER -> Panicked("unrecognized R1CS curve type", <<>>)

\* Mutant: the constant one-wire is counted.
expectedSizeWithOneWire(nbSecret, nbPublic) == nbSecret + nbPublic

\* _, nbSecret, nbPublic := r1cs.GetNbVariables()
\* expectedSize := (nbSecret + nbPublic - 1)
expectedSize(nbSecret, nbPublic) == nbSecret + nbPublic - 1

\* One case of ReadAndProve's type switch (on the R1CS).
readAndProveCase(wa, pka, ga, r1cs, pk, witness, size, force) ==
    LET rd == LimitReadFrom(witness, size)
    IN  IF rd.err # "nil" THEN Returned(NilArtifact, rd.err, <<>>)
        ELSE IF pk.type # PKType(pka) THEN Panicked(TypeAssertPanic, <<>>)
        ELSE backendProve(ga, SatisfiedBy(rd.w, r1cs.nbPublic - 1), force)

\* r1cs.GetNbVariables() is a method call on the interface: it panics on nil.
ReadAndProve(r1cs, pk, witness, force) ==
    LET f == forceFlag(force)
    IN  IF r1cs.type = NilType THEN Panicked("nil pointer dereference", <<>>)
        ELSE
        LET size == expectedSize(r1cs.nbSecret, r1cs.nbPublic)
        IN  CASE r1cs.type = R1CSType("bls377") ->
                     readAndProveCase("bls377", "bls377", "bls377", r1cs, pk, witness, size, f)
              [] r1cs.type = R1CSType("bls381") ->
                     readAndProveCase("bls381", "bls381", "bls381", r1cs, pk, witness, size, f)
              [] r1cs.type = R1CSType("bn256") ->
                     readAndProveCase("bn256", "bn256", "bn256", r1cs, pk, witness, size, f)
              [] r1cs.type = R1CSType("bw761") ->
                     readAndProveCase("bw761", "bw761", "bw761", r1cs, pk, witness, size, f)
              [] OTHER -> Panicked("unrecognized R1CS curve type", <<>>)

\* ecc.ID: the four curves, UNKNOWN (the zero value) and a value past them.
CurveIDs == {"BN254", "BLS12_377", "BLS12_381", "BW6_761"}
IDs == CurveIDs \cup {"UNKNOWN", "OUT_OF_RANGE"}

NewProvingKey(curveID) ==
    CASE curveID = "BN254"     -> Returned([type |-> PKType("bn256")], "nil", <<>>)
      [] curveID = "BLS12_377" -> Returned([type |-> PKType("bls377")], "nil", <<>>)
      [] curveID = "BLS12_381" -> Returned([type |-> PKType("bls381")], "nil", <<>>)
      [] curveID = "BW6_761"   -> Returned([type |-> PKType("bw761")], "nil", <<>>)
      [] OTHER -> Panicked("not implemented", <<>>)

\* Mutant: two cases of the switch exchanged.
NewVerifyingKeySwapped(curveID) ==
    CASE curveID = "BN254"     -> Returned([type |-> VKType("bn256")], "nil", <<>>)
      [] curveID = "BLS12_377" -> Returned([type |-> VKType("bls381")], "nil", <<>>)
      [] curveID = "BLS12_381" -> Returned([type |-> VKType("bls377")], "nil", <<>>)
      [] curveID = "BW6_761"   -> Returned([type |-> VKType("bw761")], "nil", <<>>)
      [] OTHER -> Panicked("not implemented", <<>>)

NewVerifyingKey(curveID) ==
    CASE curveID = "BN254"     -> Returned([type |-> VKType("bn256")], "nil", <<>>)
      [] curveID = "BLS12_377" -> Returned([type |-> VKType("bls377")], "nil", <<>>)
      [] curveID = "BLS12_381" -> Returned([type |-> VKType("bls381")], "nil", <<>>)
      [] curveID = "BW6_761"   -> Returned([type |-> VKType("bw761")], "nil", <<>>)
      [] OTHER -> Panicked("not implemented", <<>>)

NewProof(curveID) ==
    CASE curveID = "BN254"     -> Returned([type |-> ProofType("bn256")], "nil", <<>>)
      [] curveID = "BLS12_377" -> Returned([type |-> ProofType("bls377")], "nil", <<>>)
      [] curveID = "BLS12_381" -> Returned([type |-> ProofType("bls381")], "nil", <<>>)
      [] curveID = "BW6_761"   -> Returned([type |-> ProofType("bw761")], "nil", <<>>)
      [] OTHER -> Panicked("not implemented", <<>>)

NewCS(curveID) ==
    CASE curveID = "BN254"     -> Returned([type |-> R1CSType("bn256")], "nil", <<>>)
      [] curveID = "BLS12_377" -> Returned([type |-> R1CSType("bls377")], "nil", <<>>)
      [] curveID = "BLS12_381" -> Returned([type |-> R1CSType("bls381")], "nil", <<>>)
      [] curveID = "BW6_761"   -> Returned([type |-> R1CSType("bw761")], "nil", <<>>)
      [] OTHER -> Panicked("not implemented", <<>>)

---------------------------------------------------------------------------
(* The arguments a caller can pass. *)
OtherTypes == {NilType, ForeignType}

Proofs ==
    {[type |-> t, valid |-> v] :
        t \in {ProofType(a) : a \in Aliases} \cup OtherTypes, v \in BOOLEAN}

VerifyingKeys ==
    {[type |-> t, sizePublic |-> n] :
        t \in {VKType(a) : a \in Aliases} \cup OtherTypes, n \in 0..(MaxPublic - 1)}

ProvingKeys ==
    {[type |-> t] : t \in {PKType(a) : a \in Aliases} \cup OtherTypes}

\* nbPublic counts the constant one-wire, so it is at least 1.
ConstraintSystems ==
    {[type |-> t, nbPublic |-> p, nbSecret |-> s] :
        t \in {R1CSType(a) : a \in Aliases} \cup OtherTypes,
        p \in 1..MaxPublic, s \in 0..MaxSecret}

Assignments == [public : BOOLEAN, secret : BOOLEAN, satisfies : BOOLEAN]

\* A stream: the announced count and the elements that follow it.
Readers ==
    {[nbElements |-> n, elems |-> e] :
        n \in 0..MaxElems, e \in UNION {[1..k -> {0, 1}] : k \in 0..MaxElems}}

ForceArgs == UNION {[1..n -> BOOLEAN] : n \in 0..MaxForce}

FacadeIdle ==
    /\ op = "none"
    /\ args = <<>>
    /\ ret = <<>>
    /\ backend = <<>>

CallVerify ==
    /\ op = "none"
    /\ \E p \in Proofs, k \in VerifyingKeys, w \in Assignments :
        LET r == Verify(p, k, w)
        IN  /\ op' = "Verify"
            /\ args' = [proof |-> p, vk |-> k, witness |-> w]
            /\ ret' = r.ret
            /\ backend' = r.backend
            /\ UNCHANGED <<hintVars, e2Vars, mlVars, genVars>>

CallReadAndVerify ==
    /\ op = "none"
    /\ \E p \in Proofs, k \in VerifyingKeys, w \in Readers :
        LET r == ReadAndVerify(p, k, w)
        IN  /\ op' = "ReadAndVerify"
            /\ args' = [proof |-> p, vk |-> k, witness |-> w]
            /\ ret' = r.ret
            /\ backend' = r.backend
            /\ UNCHANGED <<hintVars, e2Vars, mlVars, genVars>>

CallProve ==
    /\ op = "none"
    /\ \E c \in ConstraintSystems, k \in ProvingKeys, w \in Assignments,
       f \in ForceArgs :
        LET r == Prove(c, k, w, f)
        IN  /\ op' = "Prove"
            /\ args' = [r1cs |-> c, pk |-> k, witness |-> w, force |-> f]
            /\ ret' = r.ret
            /\ backend' = r.backend
            /\ UNCHANGED <<hintVars, e2Vars, mlVars, genVars>>

CallReadAndProve ==
    /\ op = "none"
    /\ \E c \in ConstraintSystems, k \in ProvingKeys, w \in Readers,
       f \in ForceArgs :
        LET r == ReadAndProve(c, k, w, f)
        IN  /\ op' = "ReadAndProve"
            /\ args' = [r1cs |-> c, pk |-> k, witness |-> w, force |-> f]
            /\ ret' = r.ret
            /\ backend' = r.backend
            /\ UNCHANGED <<hintVars, e2Vars, mlVars, genVars>>

CallNewProvingKey ==
    /\ op = "none"
    /\ \E id \in IDs :
        LET r == NewProvingKey(id)
        IN  /\ op' = "NewProvingKey"
            /\ args' = [curveID |-> id]
            /\ ret' = r.ret
            /\ backend' = r.backend
            /\ UNCHANGED <<hintVars, e2Vars, mlVars, genVars>>

CallNewVerifyingKey ==
    /\ op = "none"
    /\ \E id \in IDs :
        LET r == NewVerifyingKey(id)
        IN  /\ op' = "NewVerifyingKey"
            /\ args' = [curveID |-> id]
            /\ ret' = r.ret
            /\ backend' = r.backend
            /\ UNCHANGED <<hintVars, e2Vars, mlVars, genVars>>

CallNewProof ==
    /\ op = "none"
    /\ \E id \in IDs :
        LET r == NewProof(id)
        IN  /\ op' = "NewProof"
            /\ args' = [curveID |-> id]
            /\ ret' = r.ret
            /\ backend' = r.backend
            /\ UNCHANGED <<hintVars, e2Vars, mlVars, genVars>>

CallNewCS ==
    /\ op = "none"
    /\ \E id \in IDs :
        LET r == NewCS(id)
        IN  /\ op' = "NewCS"
            /\ args' = [curveID |-> id]
            /\ ret' = r.ret
            /\ backend' = r.backend
            /\ UNCHANGED <<hintVars, e2Vars, mlVars, genVars>>

\* The caller has taken the result; the facade keeps no state between calls.
Done ==
    /\ op # "none"
    /\ op' = "none"
    /\ args' = <<>>
    /\ ret' = <<>>
    /\ backend' = <<>>
    /\ UNCHANGED <<hintVars, e2Vars, mlVars, genVars>>

---------------------------------------------------------------------------
(***************************************************************************)
(* fields.E2: elements of a quadratic extension, as pairs of circuit       *)
(* variables.  A method writes its receiver field by field, and receiver   *)
(* and operands are pointers that may name the same object, so the model   *)
(* keeps the objects in a heap and applies the assignments in order.  A    *)
(* variable is known by the field element it takes when the circuit is     *)
(* solved; the base field is scaled down to a small prime.                 *)
(***************************************************************************)
FpLow == 7

\* The base field's modulus: the least prime not below FpLow.
FpModulus == CHOOSE p \in FpLow..(2 * FpLow) :
                IsPrime(p) /\ \A r \in FpLow..(p - 1) : ~IsPrime(r)

Fp == 0..(FpModulus - 1)

\* frontend.API: Add, Sub, Mul on variables and constants.
ApiAdd(x, y) == (x + y) % FpModulus
ApiSub(x, y) == (x - y + FpModulus) % FpModulus
ApiMul(x, y) == (x * y) % FpModulus

\* frontend.API.Inverse(y): a wire z with the constraint z*y = 1; no value
\* satisfies it when y = 0.
ApiInverse(y) ==
    IF y = 0 THEN [sat |-> FALSE, val |-> 0]
    ELSE [sat |-> TRUE, val |-> CHOOSE z \in Fp : (z * y) % FpModulus = 1]

\* type E2 struct { A0, A1 frontend.Variable }
E2 == [A0 : Fp, A1 : Fp]
Objs == 1..3

\* Mutant: the receiver's A1 is written before e1.A1 and e2.A1 are last read.
E2MulWritesEarly(h, e, e1, e2, uSquare) ==
    LET l1 == ApiAdd(h[e1].A0, h[e1].A1)
        l2 == ApiAdd(h[e2].A0, h[e2].A1)
        u == ApiMul(l1, l2)
        ac == ApiMul(h[e1].A0, h[e2].A0)
        l3a == ApiSub(u, ac)
        hA == [h EXCEPT ![e].A1 = ApiMul(l3a, 1)]
        bd == ApiMul(hA[e1].A1, hA[e2].A1)
        l3 == ApiSub(hA[e].A1, bd)
        hB == [hA EXCEPT ![e].A1 = ApiMul(l3, 1)]
        l41 == ApiMul(bd, uSquare)
        l4 == ApiAdd(ac, l41)
    IN  [hB EXCEPT ![e].A0 = ApiMul(l4, 1)]

\* func (e *E2) Mul(gnark, e1, e2 *E2, ext Extension) *E2
E2Mul(h, e, e1, e2, uSquare) ==
    LET l1 == ApiAdd(h[e1].A0, h[e1].A1)
        l2 == ApiAdd(h[e2].A0, h[e2].A1)
        u == ApiMul(l1, l2)
        ac == ApiMul(h[e1].A0, h[e2].A0)
        bd == ApiMul(h[e1].A1, h[e2].A1)
        l31 == ApiAdd(ac, bd)
        l3 == ApiSub(u, l31)
        hA == [h EXCEPT ![e].A1 = ApiMul(l3, 1)]
        buSquare == uSquare
        l41 == ApiMul(bd, buSquare)
        l4 == ApiAdd(ac, l41)
    IN  [hA EXCEPT ![e].A0 = ApiMul(l4, 1)]

\* func (z *E2) Square(gnark, x *E2, ext Extension) *E2
E2Square(h, z, x, uSquare) ==
    LET c0a == ApiAdd(h[x].A0, h[x].A1)
        buSquare == uSquare
        c2a == ApiMul(h[x].A1, buSquare)
        c2b == ApiAdd(c2a, h[x].A0)
        c0b == ApiMul(c0a, c2b)
        c2c == ApiMul(h[x].A0, h[x].A1)
        c2d == ApiAdd(c2c, c2c)
        hA == [h EXCEPT ![z].A1 = c2d]
        c2e == ApiAdd(c2d, c2d)
    IN  [hA EXCEPT ![z].A0 = ApiAdd(c0b, c2e)]

\* Mutant: A1 is not negated.
E2InverseNoNeg(h, e, e1, uSquare) ==
    LET a0 == h[e1].A0
        a1 == h[e1].A1
        t0a == ApiMul(h[e1].A0, h[e1].A0)
        t1a == ApiMul(h[e1].A1, h[e1].A1)
        t1beta == ApiMul(t1a, uSquare)
        t0 == ApiSub(t0a, t1beta)
        t1 == ApiInverse(t0)
        hA == [h EXCEPT ![e].A0 = ApiMul(a0, t1.val)]
    IN  [heap |-> [hA EXCEPT ![e].A1 = ApiMul(a1, t1.val)], sat |-> t1.sat]

\* func (e *E2) Inverse(gnark, e1 *E2, ext Extension) *E2
E2Inverse(h, e, e1, uSquare) ==
    LET a0 == h[e1].A0
        a1 == h[e1].A1
        t0a == ApiMul(h[e1].A0, h[e1].A0)
        t1a == ApiMul(h[e1].A1, h[e1].A1)
        t1beta == ApiMul(t1a, uSquare)
        t0 == ApiSub(t0a, t1beta)
        t1 == ApiInverse(t0)
        hA == [h EXCEPT ![e].A0 = ApiMul(a0, t1.val)]
        hB == [hA EXCEPT ![e].A1 = ApiSub(0, a1)]
    IN  [heap |-> [hB EXCEPT ![e].A1 = ApiMul(hB[e].A1, t1.val)], sat |-> t1.sat]

\* func (e *E2) Neg(gnark, e1 *E2) *E2
E2Neg(h, e, e1) ==
    LET hA == [h EXCEPT ![e].A0 = ApiSub(0, h[e1].A0)]
    IN  [hA EXCEPT ![e].A1 = ApiSub(0, hA[e1].A1)]

\* func (e *E2) Add(gnark, e1, e2 *E2) *E2
E2Add(h, e, e1, e2) ==
    LET hA == [h EXCEPT ![e].A0 = ApiAdd(h[e1].A0, h[e2].A0)]
    IN  [hA EXCEPT ![e].A1 = ApiAdd(hA[e1].A1, hA[e2].A1)]

\* func (e *E2) Sub(gnark, e1, e2 *E2) *E2
E2Sub(h, e, e1, e2) ==
    LET hA == [h EXCEPT ![e].A0 = ApiSub(h[e1].A0, h[e2].A0)]
    IN  [hA EXCEPT ![e].A1 = ApiSub(hA[e1].A1, hA[e2].A1)]

\* func (e *E2) MulByFp(gnark, e1 *E2, c interface{}) *E2
E2MulByFp(h, e, e1, c) ==
    LET hA == [h EXCEPT ![e].A0 = ApiMul(h[e1].A0, c)]
    IN  [hA EXCEPT ![e].A1 = ApiMul(hA[e1].A1, c)]

\* func (e *E2) MulByIm(gnark, e1 *E2, ext Extension) *E2
E2MulByIm(h, e, e1, uSquare) ==
    LET x == h[e1].A0
        hA == [h EXCEPT ![e].A0 = ApiMul(h[e1].A1, uSquare)]
    IN  [hA EXCEPT ![e].A1 = x]

\* func (e *E2) Conjugate(gnark, e1 *E2) *E2
E2Conjugate(h, e, e1) ==
    LET hA == [h EXCEPT ![e].A0 = h[e1].A0]
    IN  [hA EXCEPT ![e].A1 = ApiSub(0, hA[e1].A1)]

\* fp.Element and fr.Element: arrays of FpLimbCount words of base FpLimbBase
\* holding the Montgomery form v*R mod q of a value v.  The base field of
\* BLS12-377 is the scalar field of BW6-761, so both types have the same q
\* and the same R.
FpLimbBase == 4
FpLimbCount == 2

\* The Montgomery radix of the element types and its inverse modulo q.
FpR == FpLimbBase ^ FpLimbCount
FpRInv == CHOOSE z \in Fp : (z * (FpR % FpModulus)) % FpModulus = 1

\* The number the words a[1..n] spell, least significant word first.
RECURSIVE FpLimbsNumber(_, _)
FpLimbsNumber(a, n) ==
    IF n = 0 THEN 0 ELSE a[1] + FpLimbBase * FpLimbsNumber(Tail(a), n - 1)

\* The n least significant words of the number m.
RECURSIVE FpNumberLimbs(_, _)
FpNumberLimbs(m, n) ==
    IF n = 0 THEN <<>> ELSE <<m % FpLimbBase>> \o FpNumberLimbs(m \div FpLimbBase, n - 1)

\* The value of an element: its words out of Montgomery form.
FpLimbsValue(a, n) == (FpLimbsNumber(a, n) * FpRInv) % FpModulus

\* The words of the element holding v.
FpLimbsOf(v, n) == FpNumberLimbs((v * FpR) % FpModulus, n)

\* func bls12377FpTobw6761fr(a *fp.Element) (r fr.Element): r[i] = a[i]
bls12377FpTobw6761fr(a) == [i \in 1..FpLimbCount |-> a[i]]

\* func (e *E2) Assign(a *bls12377.E2); a's coordinates are fp.Elements
E2Assign(h, e, a) ==
    LET hA == [h EXCEPT ![e].A0 =
                  FpLimbsValue(bls12377FpTobw6761fr(a.A0), FpLimbCount) % FpModulus]
    IN  [hA EXCEPT ![e].A1 =
            FpLimbsValue(bls12377FpTobw6761fr(a.A1), FpLimbCount) % FpModulus]

\* frontend.API.AssertIsEqual(x, y): the constraint (x - y)*1 = 0
ApiAssertIsEqual(x, y) == ApiMul(ApiSub(x, y), 1) = 0

\* func (e *E2) MustBeEqual(gnark, other E2): whether both constraints hold
E2MustBeEqual(h, e, other) ==
    /\ ApiAssertIsEqual(h[e].A0, other.A0)
    /\ ApiAssertIsEqual(h[e].A1, other.A1)

\* The objects a caller holds: two operands and a third object, zero.
E2Zero == [A0 |-> 0, A1 |-> 0]
E2Heap(x, y) == <<x, y, E2Zero>>

E2Idle ==
    /\ e2op = "none"
    /\ e2args = <<>>
    /\ e2heap0 = <<>>
    /\ e2heap = <<>>
    /\ e2sat = TRUE

\* e.Mul(gnark, e1, e2, ext): e1 is object 1, e2 is object 1 or 2, the
\* receiver is any of the three.
E2CallMul ==
    /\ e2op = "none"
    /\ \E e \in Objs, b \in 1..2, x \in E2, y \in E2, u \in Fp :
          /\ e2op' = "Mul"
          /\ e2args' = [e |-> e, e1 |-> 1, e2 |-> b, uSquare |-> u]
          /\ e2heap0' = E2Heap(x, y)
          /\ e2heap' = E2Mul(E2Heap(x, y), e, 1, b, u)
          /\ e2sat' = TRUE
          /\ UNCHANGED <<hintVars, facadeVars, mlVars, genVars>>

\* z.Square(gnark, x, ext): x is object 1, the receiver is object 1 or 3.
E2CallSquare ==
    /\ e2op = "none"
    /\ \E z \in {1, 3}, x \in E2, u \in Fp :
          /\ e2op' = "Square"
          /\ e2args' = [e |-> z, e1 |-> 1, uSquare |-> u]
          /\ e2heap0' = E2Heap(x, E2Zero)
          /\ e2heap' = E2Square(E2Heap(x, E2Zero), z, 1, u)
          /\ e2sat' = TRUE
          /\ UNCHANGED <<hintVars, facadeVars, mlVars, genVars>>

\* e.Inverse(gnark, e1, ext): e1 is object 1, the receiver is object 1 or 3.
E2CallInverse ==
    /\ e2op = "none"
    /\ \E e \in {1, 3}, x \in E2, u \in Fp :
          LET r == E2Inverse(E2Heap(x, E2Zero), e, 1, u)
          IN  /\ e2op' = "Inverse"
              /\ e2args' = [e |-> e, e1 |-> 1, uSquare |-> u]
              /\ e2heap0' = E2Heap(x, E2Zero)
              /\ e2heap' = r.heap
              /\ e2sat' = r.sat
              /\ UNCHANGED <<hintVars, facadeVars, mlVars, genVars>>

\* e.Neg(gnark, e1): e1 is object 1, the receiver is object 1 or 3.
E2CallNeg ==
    /\ e2op = "none"
    /\ \E r \in {1, 3}, x \in E2 :
          /\ e2op' = "Neg"
          /\ e2args' = [e |-> r, e1 |-> 1]
          /\ e2heap0' = E2Heap(x, E2Zero)
          /\ e2heap' = E2Neg(E2Heap(x, E2Zero), r, 1)
          /\ e2sat' = TRUE
          /\ UNCHANGED <<hintVars, facadeVars, mlVars, genVars>>

\* e.Add(gnark, e1, e2): e1 is object 1, e2 is object 1 or 2, the receiver
\* is any of the three.
E2CallAdd ==
    /\ e2op = "none"
    /\ \E r \in Objs, b \in 1..2, x \in E2, y \in E2 :
          /\ e2op' = "Add"
          /\ e2args' = [e |-> r, e1 |-> 1, e2 |-> b]
          /\ e2heap0' = E2Heap(x, y)
          /\ e2heap' = E2Add(E2Heap(x, y), r, 1, b)
          /\ e2sat' = TRUE
          /\ UNCHANGED <<hintVars, facadeVars, mlVars, genVars>>

\* e.Sub(gnark, e1, e2), as for Add.
E2CallSub ==
    /\ e2op = "none"
    /\ \E r \in Objs, b \in 1..2, x \in E2, y \in E2 :
          /\ e2op' = "Sub"
          /\ e2args' = [e |-> r, e1 |-> 1, e2 |-> b]
          /\ e2heap0' = E2Heap(x, y)
          /\ e2heap' = E2Sub(E2Heap(x, y), r, 1, b)
          /\ e2sat' = TRUE
          /\ UNCHANGED <<hintVars, facadeVars, mlVars, genVars>>

\* e.MulByFp(gnark, e1, c): e1 is object 1, the receiver is object 1 or 3.
E2CallMulByFp ==
    /\ e2op = "none"
    /\ \E r \in {1, 3}, x \in E2, k \in Fp :
          /\ e2op' = "MulByFp"
          /\ e2args' = [e |-> r, e1 |-> 1, c |-> k]
          /\ e2heap0' = E2Heap(x, E2Zero)
          /\ e2heap' = E2MulByFp(E2Heap(x, E2Zero), r, 1, k)
          /\ e2sat' = TRUE
          /\ UNCHANGED <<hintVars, facadeVars, mlVars, genVars>>

\* e.MulByIm(gnark, e1, ext): e1 is object 1, the receiver is object 1 or 3.
E2CallMulByIm ==
    /\ e2op = "none"
    /\ \E r \in {1, 3}, x \in E2, u \in Fp :
          /\ e2op' = "MulByIm"
          /\ e2args' = [e |-> r, e1 |-> 1, uSquare |-> u]
          /\ e2heap0' = E2Heap(x, E2Zero)
          /\ e2heap' = E2MulByIm(E2Heap(x, E2Zero), r, 1, u)
          /\ e2sat' = TRUE
          /\ UNCHANGED <<hintVars, facadeVars, mlVars, genVars>>

\* e.Conjugate(gnark, e1): e1 is object 1, the receiver is object 1 or 3.
E2CallConjugate ==
    /\ e2op = "none"
    /\ \E r \in {1, 3}, x \in E2 :
          /\ e2op' = "Conjugate"
          /\ e2args' = [e |-> r, e1 |-> 1]
          /\ e2heap0' = E2Heap(x, E2Zero)
          /\ e2heap' = E2Conjugate(E2Heap(x, E2Zero), r, 1)
          /\ e2sat' = TRUE
          /\ UNCHANGED <<hintVars, facadeVars, mlVars, genVars>>

\* e.Assign(a): the receiver is object 1, a is any bls12377.E2.
E2CallAssign ==
    /\ e2op = "none"
    /\ \E x \in E2, v \in E2 :
          LET a == [A0 |-> FpLimbsOf(v.A0, FpLimbCount), A1 |-> FpLimbsOf(v.A1, FpLimbCount)]
          IN  /\ e2op' = "Assign"
              /\ e2args' = [e |-> 1, a |-> a]
              /\ e2heap0' = E2Heap(x, E2Zero)
              /\ e2heap' = E2Assign(E2Heap(x, E2Zero), 1, a)
              /\ e2sat' = TRUE
              /\ UNCHANGED <<hintVars, facadeVars, mlVars, genVars>>

\* e.MustBeEqual(gnark, other): the receiver is object 1, other is a copy of
\* object 1 or 2; the objects are not written.
E2CallMustBeEqual ==
    /\ e2op = "none"
    /\ \E b \in 1..2, x \in E2, y \in E2 :
          /\ e2op' = "MustBeEqual"
          /\ e2args' = [e |-> 1, other |-> E2Heap(x, y)[b]]
          /\ e2heap0' = E2Heap(x, y)
          /\ e2heap' = E2Heap(x, y)
          /\ e2sat' = E2MustBeEqual(E2Heap(x, y), 1, E2Heap(x, y)[b])
          /\ UNCHANGED <<hintVars, facadeVars, mlVars, genVars>>

\* The caller has used the result.
E2Done ==
    /\ e2op # "none"
    /\ e2op' = "none"
    /\ e2args' = <<>>
    /\ e2heap0' = <<>>
    /\ e2heap' = <<>>
    /\ e2sat' = TRUE
    /\ UNCHANGED <<hintVars, facadeVars, mlVars, genVars>>

---------------------------------------------------------------------------
(***************************************************************************)
(* sw.MillerLoop.  AteLoop is a uint64, kept here as little-endian limbs;  *)
(* the loop is followed statement by statement.  The point qProj is known  *)
(* by the multiple of Q it holds (DoubleStep doubles it, AddMixedStep adds *)
(* Q), kept as a uint64 in the same form.                                  *)
(***************************************************************************)
LoopBits == 64
FreeLowBits == 3

U64LimbBits == LoopBits \div 4
U64Limbs == LoopBits \div U64LimbBits
U64Base == Pow2(U64LimbBits)
U64 == [1..U64Limbs -> 0..(U64Base - 1)]

\* big.Int.Bit(i) of a value set by SetUint64
U64Bit(n, i) ==
    LET limb == n[(i \div U64LimbBits) + 1]
        shifted == limb \div Pow2(i % U64LimbBits)
    IN  shifted % 2

\* The carry into limb k of 2*n + c.
RECURSIVE U64Carry(_, _, _)
U64Carry(n, c, k) ==
    IF k = 1 THEN c
    ELSE (2 * n[k - 1] + U64Carry(n, c, k - 1)) \div U64Base

\* 2*n + c modulo 2^64
U64DoublePlus(n, c) ==
    [k \in 1..U64Limbs |-> (2 * n[k] + U64Carry(n, c, k)) % U64Base]

\* The carry into limb k of n + 1.
RECURSIVE U64IncCarry(_, _)
U64IncCarry(n, k) ==
    IF k = 1 THEN 1
    ELSE (n[k - 1] + U64IncCarry(n, k - 1)) \div U64Base

\* n + 1 modulo 2^64
U64Inc(n) ==
    [k \in 1..U64Limbs |-> (n[k] + U64IncCarry(n, k)) % U64Base]

U64One == [k \in 1..U64Limbs |-> IF k = 1 THEN 1 ELSE 0]

\* ateLoop := uint64(9586122913090633729), 0x8508C00000000001
BLS377AteLoop == [k \in 1..U64Limbs |-> <<1, 0, 49152, 34056>>[k]]

\* The loops tried: the BLS12-377 one, and every value whose bits 63, 62 and
\* lowest FreeLowBits bits are free and whose other bits are clear.
AteLoops ==
    {BLS377AteLoop} \cup
    { [k \in 1..U64Limbs |->
          IF k = 1 THEN lo
          ELSE IF k = U64Limbs THEN hi * Pow2(U64LimbBits - 2)
          ELSE 0] : lo \in 0..(Pow2(FreeLowBits) - 1), hi \in 0..3 }

\* Mutant: the loop starts at the top bit.
MillerLoopStartAtTop == LoopBits - 1

\* i := len(ateLoopBin) - 2
MillerLoopStart == LoopBits - 2

MillerIdle ==
    /\ mlpc = "idle"
    /\ mlAte = <<>>
    /\ mlBin = <<>>
    /\ mlI = 0
    /\ mlIters = 0
    /\ mlOps = <<>>
    /\ mlMult = <<>>

\* MillerLoop is called: ateLoopBin is filled, res is set to one, qProj = Q.
MillerLoopEnter ==
    /\ mlpc = "idle"
    /\ \E a \in AteLoops :
          /\ mlAte' = a
          /\ mlBin' = [i \in 0..(LoopBits - 1) |-> U64Bit(a, i)]
          /\ mlMult' = U64One
          /\ mlI' = MillerLoopStart
          /\ mlIters' = 0
          /\ mlOps' = <<>>
          /\ mlpc' = "head"
          /\ UNCHANGED <<hintVars, facadeVars, e2Vars, genVars>>

\* for ...; i >= 0; ... { res.Mul(gnark, res, res, ext)
MillerSquare ==
    /\ mlpc = "head"
    /\ mlI >= 0
    /\ mlIters' = mlIters + 1
    /\ mlOps' = <<"Square">>
    /\ mlpc' = "double"
    /\ UNCHANGED <<mlAte, mlBin, mlI, mlMult>>
    /\ UNCHANGED <<hintVars, facadeVars, e2Vars, genVars>>

\* qProj.DoubleStep(gnark, &l, pairingInfo) and the two MulByFp on the line
MillerDoubleStep ==
    /\ mlpc = "double"
    /\ mlMult' = U64DoublePlus(mlMult, 0)
    /\ mlOps' = Append(mlOps, "DoubleStep")
    /\ mlpc' = "mulDouble"
    /\ UNCHANGED <<mlAte, mlBin, mlI, mlIters>>
    /\ UNCHANGED <<hintVars, facadeVars, e2Vars, genVars>>

\* res.MulBy034(gnark, &l.r0, &l.r1, &l.r2, ext)
MillerMulBy034 ==
    /\ mlpc = "mulDouble"
    /\ mlOps' = Append(mlOps, "MulBy034")
    /\ mlpc' = "test"
    /\ UNCHANGED <<mlAte, mlBin, mlI, mlIters, mlMult>>
    /\ UNCHANGED <<hintVars, facadeVars, e2Vars, genVars>>

\* if ateLoopBin[i] == 0 { continue }
MillerContinue ==
    /\ mlpc = "test"
    /\ mlBin[mlI] = 0
    /\ mlI' = mlI - 1
    /\ mlpc' = "head"
    /\ UNCHANGED <<mlAte, mlBin, mlIters, mlOps, mlMult>>
    /\ UNCHANGED <<hintVars, facadeVars, e2Vars, genVars>>

\* qProj.AddMixedStep(gnark, &l, &Q, pairingInfo) and the two MulByFp
MillerAddMixedStep ==
    /\ mlpc = "test"
    /\ mlBin[mlI] # 0
    /\ mlMult' = U64Inc(mlMult)
    /\ mlOps' = Append(mlOps, "AddMixedStep")
    /\ mlpc' = "mulAdd"
    /\ UNCHANGED <<mlAte, mlBin, mlI, mlIters>>
    /\ UNCHANGED <<hintVars, facadeVars, e2Vars, genVars>>

\* the second res.MulBy034, the end of the loop body and i--
MillerMulBy034Add ==
    /\ mlpc = "mulAdd"
    /\ mlOps' = Append(mlOps, "MulBy034")
    /\ mlI' = mlI - 1
    /\ mlpc' = "head"
    /\ UNCHANGED <<mlAte, mlBin, mlIters, mlMult>>
    /\ UNCHANGED <<hintVars, facadeVars, e2Vars, genVars>>

\* the loop condition fails: return res
MillerReturn ==
    /\ mlpc = "head"
    /\ mlI < 0
    /\ mlpc' = "returned"
    /\ UNCHANGED <<mlAte, mlBin, mlI, mlIters, mlOps, mlMult>>
    /\ UNCHANGED <<hintVars, facadeVars, e2Vars, genVars>>

\* The caller has used the result.
MillerDone ==
    /\ mlpc = "returned"
    /\ mlpc' = "idle"
    /\ mlAte' = <<>>
    /\ mlBin' = <<>>
    /\ mlI' = 0
    /\ mlIters' = 0
    /\ mlOps' = <<>>
    /\ mlMult' = <<>>
    /\ UNCHANGED <<hintVars, facadeVars, e2Vars, genVars>>

---------------------------------------------------------------------------
(***************************************************************************)
(* internal/generators/backend: main starts one goroutine per curve, waits *)
(* on a WaitGroup and runs gofmt.  A goroutine that panics runs its        *)
(* deferred wg.Done() and then the runtime ends the process; main and the  *)
(* other goroutines keep running until it has.                             *)
(***************************************************************************)
bls12_377 == [RootPath |-> "../../../internal/backend/bls12-377/",
              Curve |-> "BLS12-377", CurveID |-> "BLS12_377", Package |-> "bls12377"]
bls12_381 == [RootPath |-> "../../../internal/backend/bls12-381/",
              Curve |-> "BLS12-381", CurveID |-> "BLS12_381", Package |-> "bls12381"]
bn254 == [RootPath |-> "../../../internal/backend/bn254/",
          Curve |-> "BN254", CurveID |-> "BN254", Package |-> "bn254"]
bw6_761 == [RootPath |-> "../../../internal/backend/bw6-761/",
            Curve |-> "BW6-761", CurveID |-> "BW6_761", Package |-> "bw6761"]

datas == <<bls12_377, bls12_381, bn254, bw6_761>>
Goroutines == 1..Len(datas)
NoData == [RootPath |-> "", Curve |-> "", CurveID |-> "", Package |-> ""]

\* The calls of a goroutine's body in order, with the entries of each
\* GenerateF call: the files it writes below d.RootPath, in this order.
GenSteps ==
    << [call |-> "MkdirAll", files |-> <<>>],
       [call |-> "MkdirAll", files |-> <<>>],
       [call |-> "GenerateF", files |-> << <<"cs", "r1cs.go">>, <<"cs", "r1cs_sparse.go">> >>],
       [call |-> "GenerateF", files |-> << <<"cs", "r1cs_test.go">> >>],
       [call |-> "GenerateF", files |-> << <<"witness", "witness.go">> >>],
       [call |-> "GenerateF", files |-> << <<"groth16", "verify.go">>, <<"groth16", "prove.go">>,
                                          <<"groth16", "setup.go">>, <<"groth16", "marshal.go">>,
                                          <<"groth16", "marshal_test.go">> >>],
       [call |-> "GenerateF", files |-> << <<"groth16", "groth16_test.go">> >>],
       [call |-> "GenerateF", files |-> << <<"plonk", "verify.go">>, <<"plonk", "prove.go">>,
                                          <<"plonk", "setup.go">> >>],
       [call |-> "GenerateF", files |-> << <<"plonk", "plonk_test.go">> >>] >>

\* filepath.Join(d.RootPath, dir, file) for the k-th entry of a call
StepFile(d, step, k) ==
    <<d.RootPath, GenSteps[step].files[k][1], GenSteps[step].files[k][2]>>

\* The files of the first n entries of a call.
StepFiles(d, step, n) == { StepFile(d, step, k) : k \in 1..n }

\* The position after an entry of a call has been written: the call's next
\* entry, or the next call when it was the last.
AfterEntry(step, n) ==
    IF n + 1 >= Len(GenSteps[step].files)
    THEN [step |-> step + 1, n |-> 0]
    ELSE [step |-> step, n |-> n + 1]

\* The goroutines of a process that has ended: what remains of each is how
\* far it got.
Gone(G) == [g \in Goroutines |-> [G[g] EXCEPT !.st = "gone"]]

GenInit ==
    /\ genMain = "add"
    /\ genK = 1
    /\ genWg = 0
    /\ genG = [g \in Goroutines |-> [st |-> "unborn", step |-> 1, n |-> 0, d |-> NoData]]
    /\ genFiles = [g \in Goroutines |-> {}]
    /\ genFmt = FALSE
    /\ genProc = "running"

\* for _, d := range datas { wg.Add(1)
MainAdd ==
    /\ genProc = "running"
    /\ genMain = "add"
    /\ genWg' = genWg + 1
    /\ genMain' = "go"
    /\ UNCHANGED <<genK, genG, genFiles, genFmt, genProc>>
    /\ UNCHANGED <<hintVars, facadeVars, e2Vars, mlVars>>

\* go func(d templateData) { ... }(d): the argument is evaluated here
MainGo ==
    /\ genProc = "running"
    /\ genMain = "go"
    /\ genG' = [genG EXCEPT ![genK] = [st |-> "running", step |-> 1, n |-> 0, d |-> datas[genK]]]
    /\ genK' = genK + 1
    /\ genMain' = IF genK = Len(datas) THEN "wait" ELSE "add"
    /\ UNCHANGED <<genWg, genFiles, genFmt, genProc>>
    /\ UNCHANGED <<hintVars, facadeVars, e2Vars, mlVars>>

\* wg.Wait() returns when the counter is zero
MainWait ==
    /\ genProc = "running"
    /\ genMain = "wait"
    /\ genWg = 0
    /\ genMain' = "gofmt"
    /\ UNCHANGED <<genK, genWg, genG, genFiles, genFmt, genProc>>
    /\ UNCHANGED <<hintVars, facadeVars, e2Vars, mlVars>>

\* exec.Command("gofmt", ...); cmd.Run() starts gofmt
MainGofmt ==
    /\ genProc = "running"
    /\ genMain = "gofmt"
    /\ genFmt' = TRUE
    /\ genMain' = "fmt"
    /\ UNCHANGED <<genK, genWg, genG, genFiles, genProc>>
    /\ UNCHANGED <<hintVars, facadeVars, e2Vars, mlVars>>

\* cmd.Run() returns nil and main returns
MainExit ==
    /\ genProc = "running"
    /\ genMain = "fmt"
    /\ genMain' = "end"
    /\ genProc' = "exited"
    /\ UNCHANGED <<genK, genWg, genG, genFiles, genFmt>>
    /\ UNCHANGED <<hintVars, facadeVars, e2Vars, mlVars>>

\* cmd.Run() returns an error: panic(err) in main
MainGofmtFails ==
    /\ genProc = "running"
    /\ genMain = "fmt"
    /\ genMain' = "end"
    /\ genProc' = "crashed"
    /\ genWg' = 0
    /\ genG' = Gone(genG)
    /\ UNCHANGED <<genK, genFiles, genFmt>>
    /\ UNCHANGED <<hintVars, facadeVars, e2Vars, mlVars>>

\* os.MkdirAll(d.RootPath + ...) returns nil.
GenMkdirAll ==
    /\ genProc = "running"
    /\ \E g \in Goroutines :
          /\ genG[g].st = "running"
          /\ genG[g].step <= Len(GenSteps)
          /\ GenSteps[genG[g].step].call = "MkdirAll"
          /\ genG' = [genG EXCEPT ![g].step = @ + 1]
          /\ UNCHANGED <<genMain, genK, genWg, genFiles, genFmt, genProc>>
          /\ UNCHANGED <<hintVars, facadeVars, e2Vars, mlVars>>

\* bgen.GenerateF writes the file of its next entry; after the last entry it
\* returns nil.  The other goroutines and main run between two files.
GenWriteFile ==
    /\ genProc = "running"
    /\ \E g \in Goroutines :
          /\ genG[g].st = "running"
          /\ genG[g].step <= Len(GenSteps)
          /\ GenSteps[genG[g].step].call = "GenerateF"
          /\ genFiles' = [genFiles EXCEPT ![g] =
                             @ \cup {StepFile(genG[g].d, genG[g].step, genG[g].n + 1)}]
          /\ genG' = [genG EXCEPT ![g].step = AfterEntry(genG[g].step, genG[g].n).step,
                                  ![g].n = AfterEntry(genG[g].step, genG[g].n).n]
          /\ UNCHANGED <<genMain, genK, genWg, genFmt, genProc>>
          /\ UNCHANGED <<hintVars, facadeVars, e2Vars, mlVars>>

\* os.MkdirAll returns an error: panic(err) unwinds the goroutine and runs
\* the deferred wg.Done().  Between the error and wg.Done() the goroutine
\* touches nothing that is shared, so they are one step.
GenMkdirAllFails ==
    /\ genProc = "running"
    /\ \E g \in Goroutines :
          /\ genG[g].st = "running"
          /\ genG[g].step <= Len(GenSteps)
          /\ GenSteps[genG[g].step].call = "MkdirAll"
          /\ genWg' = genWg - 1
          /\ genG' = [genG EXCEPT ![g].st = "dying"]
          /\ UNCHANGED <<genMain, genK, genFiles, genFmt, genProc>>
          /\ UNCHANGED <<hintVars, facadeVars, e2Vars, mlVars>>

\* bgen.GenerateF returns an error, having written the files of its first n
\* entries, which stay: panic(err) and the deferred wg.Done(), as above.
GenGenerateFFails ==
    /\ genProc = "running"
    /\ \E g \in Goroutines :
          /\ genG[g].st = "running"
          /\ genG[g].step <= Len(GenSteps)
          /\ GenSteps[genG[g].step].call = "GenerateF"
          /\ genWg' = genWg - 1
          /\ genG' = [genG EXCEPT ![g].st = "dying"]
          /\ UNCHANGED <<genMain, genK, genFiles, genFmt, genProc>>
          /\ UNCHANGED <<hintVars, facadeVars, e2Vars, mlVars>>

\* The body ends: the deferred wg.Done() runs and the goroutine returns.
GenReturn ==
    /\ genProc = "running"
    /\ \E g \in Goroutines :
          /\ genG[g].st = "running"
          /\ genG[g].step > Len(GenSteps)
          /\ genWg' = genWg - 1
          /\ genG' = [genG EXCEPT ![g].st = "done"]
          /\ UNCHANGED <<genMain, genK, genFiles, genFmt, genProc>>
          /\ UNCHANGED <<hintVars, facadeVars, e2Vars, mlVars>>

\* The panic was not recovered: the runtime ends the process, main and the
\* goroutines with it.  The files written and a gofmt already started remain.
GenCrash ==
    /\ genProc = "running"
    /\ \E g \in Goroutines : genG[g].st = "dying"
    /\ genProc' = "crashed"
    /\ genMain' = "end"
    /\ genWg' = 0
    /\ genG' = Gone(genG)
    /\ UNCHANGED <<genK, genFiles, genFmt>>
    /\ UNCHANGED <<hintVars, facadeVars, e2Vars, mlVars>>

---------------------------------------------------------------------------
InitHints == HintIdle /\ FacadeIdle /\ E2Idle /\ MillerIdle /\ GenInit
NextHints == Load \/ CallPowModulusMinusOne \/ CallIthBit \/ Decompose
SpecHints == InitHints /\ [][NextHints]_vars

InitFacade == HintIdle /\ FacadeIdle /\ E2Idle /\ MillerIdle /\ GenInit
NextFacade ==
    \/ CallVerify
    \/ CallReadAndVerify
    \/ CallProve
    \/ CallReadAndProve
    \/ CallNewProvingKey
    \/ CallNewVerifyingKey
    \/ CallNewProof
    \/ CallNewCS
    \/ Done
SpecFacade == InitFacade /\ [][NextFacade]_vars

InitE2 == HintIdle /\ FacadeIdle /\ E2Idle /\ MillerIdle /\ GenInit
NextE2 ==
    \/ E2CallNeg
    \/ E2CallAdd
    \/ E2CallSub
    \/ E2CallMul
    \/ E2CallSquare
    \/ E2CallMulByFp
    \/ E2CallMulByIm
    \/ E2CallConjugate
    \/ E2CallInverse
    \/ E2CallAssign
    \/ E2CallMustBeEqual
    \/ E2Done
SpecE2 == InitE2 /\ [][NextE2]_vars

InitMiller == HintIdle /\ FacadeIdle /\ E2Idle /\ MillerIdle /\ GenInit
NextMiller ==
    \/ MillerLoopEnter
    \/ MillerSquare
    \/ MillerDoubleStep
    \/ MillerMulBy034
    \/ MillerContinue
    \/ MillerAddMixedStep
    \/ MillerMulBy034Add
    \/ MillerReturn
    \/ MillerDone
SpecMiller == InitMiller /\ [][NextMiller]_vars

InitGen == HintIdle /\ FacadeIdle /\ E2Idle /\ MillerIdle /\ GenInit
NextGen ==
    \/ MainAdd
    \/ MainGo
    \/ MainWait
    \/ MainGofmt
    \/ MainExit
    \/ MainGofmtFails
    \/ GenMkdirAll
    \/ GenMkdirAllFails
    \/ GenWriteFile
    \/ GenGenerateFFails
    \/ GenReturn
    \/ GenCrash
SpecGen == InitGen /\ [][NextGen]_vars

---------------------------------------------------------------------------
(***************************************************************************)
(* Properties of the facade (checked under SpecFacade).                    *)
(***************************************************************************)
\* The alias of a curve-typed artifact, "none" for nil and foreign values.
AliasOf(t) ==
    IF \E a \in Aliases : t.pkg \in {"groth16_" \o a, "backend_" \o a}
    THEN CHOOSE a \in Aliases : t.pkg \in {"groth16_" \o a, "backend_" \o a}
    ELSE "none"

\* The backend directory of each curve identifier.
CurveDir(id) ==
    CASE id = "BN254"     -> "bn254"
      [] id = "BLS12_377" -> "bls12-377"
      [] id = "BLS12_381" -> "bls12-381"
      [] id = "BW6_761"   -> "bw6-761"

IsVerifyCall == op \in {"Verify", "ReadAndVerify"}
IsProveCall  == op \in {"Prove", "ReadAndProve"}
IsNewCall    == op \in {"NewProvingKey", "NewVerifyingKey", "NewProof", "NewCS"}

\* The first force value, false when there is none.
FirstForce(f) == IF f = <<>> THEN FALSE ELSE Head(f)

\* C1: Verify and ReadAndVerify given a proof of one recognised curve and a
\* verifying key of another return an error value to the caller (the claim
\* names it CurveMismatch): they do not panic, do not accept, and invoke no
\* backend Verify.  The error's name is left open here, so that only an
\* acceptance, a panic or a backend call refutes the statement.
C1_CurveIsolation ==
    (/\ IsVerifyCall
     /\ AliasOf(args.proof.type) # "none"
     /\ AliasOf(args.vk.type) # "none"
     /\ AliasOf(args.proof.type) # AliasOf(args.vk.type))
    => (ret.panic = "none" /\ ret.err # "nil" /\ backend = <<>>)

\* C2: Prove and ReadAndProve given an R1CS of one recognised curve and a
\* proving key of another return (nil, error) instead of panicking.
C2_ProveMismatchRecoverable ==
    (/\ IsProveCall
     /\ AliasOf(args.r1cs.type) # "none"
     /\ AliasOf(args.pk.type) # "none"
     /\ AliasOf(args.r1cs.type) # AliasOf(args.pk.type))
    => (ret.panic = "none" /\ ret.val.type = NilType /\ ret.err # "nil")

\* C3: each constructor, given one of the four curve identifiers, returns an
\* empty artifact of its kind from that curve's backend, so that the R1CS and
\* proving key (proof and verifying key) built from one identifier pass the
\* dispatch of Prove (Verify); given any other identifier it panics and
\* returns nothing.
C3_ConstructorsByCurve ==
    /\ IsNewCall =>
         IF args.curveID \in CurveIDs
         THEN /\ ret.panic = "none"
              /\ DOMAIN ret.val = {"type"}
              /\ ret.val.type.name =
                   (CASE op = "NewProvingKey"   -> "ProvingKey"
                      [] op = "NewVerifyingKey" -> "VerifyingKey"
                      [] op = "NewProof"        -> "Proof"
                      [] op = "NewCS"           -> "R1CS")
              /\ ret.val.type.pkg =
                   (IF op = "NewCS" THEN "backend_" ELSE "groth16_")
                       \o AliasOf(ret.val.type)
              /\ AliasOf(ret.val.type) # "none"
              /\ ImportDir(AliasOf(ret.val.type)) = CurveDir(args.curveID)
              /\ backend = <<>>
         ELSE ret.panic # "none" /\ ret.val.type = NilType
    /\ op = "Prove" =>
         \A id \in CurveIDs :
             (/\ args.r1cs.type = NewCS(id).ret.val.type
              /\ args.pk.type = NewProvingKey(id).ret.val.type)
             => ret.panic = "none"
    /\ op = "Verify" =>
         \A id \in CurveIDs :
             (/\ args.proof.type = NewProof(id).ret.val.type
              /\ args.vk.type = NewVerifyingKey(id).ret.val.type)
             => ret.panic = "none"

C3_Witness ==
    /\ op = "NewVerifyingKey"
    /\ args.curveID = "BLS12_381"
    /\ ret.panic = "none"
    /\ ret.val.type = VKType("bls381")

\* C4: the backend prover receives force = false when no force argument is
\* given and the first force value otherwise, and the backend selected is
\* that of the R1CS whatever the force arguments are.
C4_ForcePassThrough ==
    IsProveCall =>
        /\ Len(backend) <= 1
        /\ \A i \in 1..Len(backend) :
              /\ backend[i].fn = "Prove"
              /\ backend[i].force = FirstForce(args.force)
              /\ backend[i].pkg = "groth16_" \o AliasOf(args.r1cs.type)
        /\ \A f \in ForceArgs :
              LET other == IF op = "Prove"
                           THEN Prove(args.r1cs, args.pk, args.witness, f)
                           ELSE ReadAndProve(args.r1cs, args.pk, args.witness, f)
              IN  [i \in 1..Len(other.backend) |-> other.backend[i].pkg]
                    = [i \in 1..Len(backend) |-> backend[i].pkg]

C4_Witness ==
    /\ op = "Prove"
    /\ args.force = <<TRUE, FALSE>>
    /\ Len(backend) = 1
    /\ backend[1].force = TRUE

\* C5: when building the witness fails, Prove and ReadAndProve return
\* (nil, that error) and Verify and ReadAndVerify return that error, without
\* invoking the backend, whatever force is.
WitnessError ==
    CASE op = "Prove" ->
             IF args.witness.public /\ args.witness.secret
             THEN "nil" ELSE "missing assignment"
      [] op = "Verify" ->
             IF args.witness.public THEN "nil" ELSE "missing assignment"
      [] op = "ReadAndProve" ->
             IF args.witness.nbElements
                  # (args.r1cs.nbPublic - 1) + args.r1cs.nbSecret
             THEN "SizeMismatch"
             ELSE IF Len(args.witness.elems) < args.witness.nbElements
                  THEN "SerializationError" ELSE "nil"
      [] op = "ReadAndVerify" ->
             IF args.witness.nbElements # args.vk.sizePublic
             THEN "SizeMismatch"
             ELSE IF Len(args.witness.elems) < args.witness.nbElements
                  THEN "SerializationError" ELSE "nil"

Dispatched ==
    CASE op \in {"Prove", "ReadAndProve"} -> AliasOf(args.r1cs.type) # "none"
      [] op = "Verify" -> AliasOf(args.proof.type) # "none"
      [] op = "ReadAndVerify" -> AliasOf(args.vk.type) # "none"
      [] OTHER -> FALSE

C5_WitnessErrorNotForced ==
    (Dispatched /\ WitnessError # "nil")
    => /\ ret.panic = "none"
       /\ ret.val.type = NilType
       /\ ret.err = WitnessError
       /\ backend = <<>>

C5_Witness ==
    /\ op = "Prove"
    /\ args.force = <<TRUE>>
    /\ AliasOf(args.r1cs.type) = AliasOf(args.pk.type)
    /\ AliasOf(args.r1cs.type) # "none"
    /\ ~args.witness.secret
    /\ ret.err = "missing assignment"
    /\ backend = <<>>

\* The elements a stream holds at positions from..to, in stream order.
StreamPart(r, from, to) == SubSeq(r.elems, from, to)

AllAre(q, v) == \A i \in DOMAIN q : q[i] = v

\* C6: ReadAndProve expects (nbPublic - 1) + nbSecret elements, the public
\* inputs first and the secret inputs after them, and ReadAndVerify expects
\* vk.SizePublicWitness() elements.  A stream announcing any other count is
\* rejected with SizeMismatch, and one announcing that count but holding fewer
\* elements is rejected too, both before the backend runs.  A stream holding
\* the expected elements reaches the backend, which gets the first
\* nbPublic - 1 of them as the public inputs and the next nbSecret as the
\* secret inputs: the outcome is that of this reading.
C6_ExpectedWitnessSize ==
    /\ (op = "ReadAndProve" /\ Dispatched) =>
         LET nbPub == args.r1cs.nbPublic - 1
             n == nbPub + args.r1cs.nbSecret
             sat == /\ AllAre(StreamPart(args.witness, 1, nbPub), 1)
                    /\ AllAre(StreamPart(args.witness, nbPub + 1, n), 0)
         IN  IF args.witness.nbElements # n
             THEN /\ ret.panic = "none"
                  /\ ret.val.type = NilType
                  /\ ret.err = "SizeMismatch"
                  /\ backend = <<>>
             ELSE IF Len(args.witness.elems) < n
             THEN /\ ret.panic = "none"
                  /\ ret.val.type = NilType
                  /\ ret.err = "SerializationError"
                  /\ backend = <<>>
             ELSE AliasOf(args.pk.type) = AliasOf(args.r1cs.type) =>
                  /\ ret.panic = "none"
                  /\ Len(backend) = 1
                  /\ backend[1].fn = "Prove"
                  /\ IF sat \/ FirstForce(args.force)
                     THEN ret.err = "nil" /\ ret.val.valid = sat
                     ELSE ret.err = "UnsatisfiedConstraint"
    /\ (op = "ReadAndVerify" /\ Dispatched) =>
         LET n == args.vk.sizePublic
             sat == AllAre(StreamPart(args.witness, 1, n), 1)
         IN  IF args.witness.nbElements # n
             THEN /\ ret.panic = "none"
                  /\ ret.err = "SizeMismatch"
                  /\ backend = <<>>
             ELSE IF Len(args.witness.elems) < n
             THEN /\ ret.panic = "none"
                  /\ ret.err = "SerializationError"
                  /\ backend = <<>>
             ELSE AliasOf(args.proof.type) = AliasOf(args.vk.type) =>
                  /\ ret.panic = "none"
                  /\ Len(backend) = 1
                  /\ backend[1].fn = "Verify"
                  /\ (ret.err = "nil") <=> (args.proof.valid /\ sat)

\* A stream that counts the one-wire too is rejected.
C6_Witness ==
    /\ op = "ReadAndProve"
    /\ Dispatched
    /\ args.r1cs.nbPublic = 2
    /\ args.r1cs.nbSecret = 1
    /\ args.witness.nbElements = 3
    /\ Len(args.witness.elems) = 3
    /\ AliasOf(args.pk.type) = AliasOf(args.r1cs.type)
    /\ ret.err = "SizeMismatch"
    /\ backend = <<>>

\* A stream in [secret | public] order reaches the backend and is found not
\* to satisfy the circuit.
C6_WitnessSwappedOrder ==
    /\ op = "ReadAndProve"
    /\ Dispatched
    /\ args.r1cs.nbPublic = 2
    /\ args.r1cs.nbSecret = 1
    /\ args.witness = [nbElements |-> 2, elems |-> <<0, 1>>]
    /\ args.force = <<>>
    /\ AliasOf(args.pk.type) = AliasOf(args.r1cs.type)
    /\ ret.err = "UnsatisfiedConstraint"
    /\ Len(backend) = 1

---------------------------------------------------------------------------
(***************************************************************************)
(* Properties of the hints (checked under SpecHints).                      *)
(***************************************************************************)
\* The field element an Element in Montgomery form stands for.
Canon(z) == CHOOSE x \in Fq : (x * R) % Modulus = z

RECURSIVE PowMod(_, _)
PowMod(a, e) == IF e = 0 THEN 1 % Modulus ELSE (a * PowMod(a, e - 1)) % Modulus

RECURSIVE Recompose(_, _)
Recompose(bits, n) ==
    IF n = 0 THEN 0
    ELSE Recompose(bits, n - 1) + Pow2(n - 1) * Canon(bits[n].val)

FirstCall(h, len) ==
    hint = h /\ Len(inputs0) = len /\ Len(results) >= 1

\* C7: powModulusMinusOne on one input a returns a^(q-1) - 1, for a = 0 too.
C7_PowReturnsExpMinusOne ==
    FirstCall("powModulusMinusOne", 1) =>
        /\ results[1].err = "nil"
        /\ Canon(results[1].val)
             = (PowMod(Canon(inputs0[1]), Modulus - 1) + Modulus - 1) % Modulus

\* C8: the value the IsZero hint binds to m is 0 when the input x is 0 and
\* -1, that is q - 1, for every non-zero x.
C8_ZeroAtZeroMinusOneElsewhere ==
    FirstCall("powModulusMinusOne", 1) =>
        Canon(results[1].val)
          = (IF Canon(inputs0[1]) = 0 THEN 0 ELSE Modulus - 1)

\* What powModulusMinusOne returns instead: 1 when x = 0 and 0 when x # 0.
C8_OneAtZeroZeroElsewhere ==
    FirstCall("powModulusMinusOne", 1) =>
        /\ results[1].err = "nil"
        /\ Canon(results[1].val) = (IF Canon(inputs0[1]) = 0 THEN 1 ELSE 0)

C8_Witness ==
    /\ FirstCall("powModulusMinusOne", 1)
    /\ inputs0 = <<Zero>>
    /\ results[1].val = One

\* C9: for a bit position i that fits in one word, ithBit(x, i) is the
\* element 0 or 1 equal to floor(x / 2^i) mod 2 (0 past the element's
\* width); and the n bits ToBinary binds recompose to x exactly when
\* x < 2^n.
C9_BitDecomposition ==
    /\ FirstCall("ithBit", 2) =>
         LET x == Canon(inputs0[1])
             i == Canon(inputs0[2])
         IN  i < Word =>
               /\ results[1].err = "nil"
               /\ results[1].val \in {Zero, One}
               /\ Canon(results[1].val) = (x \div Pow2(i)) % 2
               /\ i >= WordBits * Limbs => results[1].val = Zero
    /\ dec.n > 0 =>
         /\ \A k \in 1..dec.n :
               dec.bits[k].err = "nil" /\ dec.bits[k].val \in {Zero, One}
         /\ (Recompose(dec.bits, dec.n) = dec.x) <=> (dec.x < Pow2(dec.n))
         /\ (Recompose(dec.bits, dec.n) % Modulus = dec.x) <=> (dec.x < Pow2(dec.n))

C9_Witness ==
    /\ dec.x = 16
    /\ dec.n = 4
    /\ Recompose(dec.bits, 4) # 16

\* C10: a hint leaves the caller's input list as it was, and a second call on
\* the same list returns what the first returned.
C10_HintsPure ==
    /\ Len(results) >= 1 => inputs = inputs0
    /\ Len(results) >= 2 => results[2] = results[1]

\* C12: powModulusMinusOne returns (zero element, error) when it is not given
\* exactly one input; ithBit returns (zero element, error) when it is not
\* given exactly two inputs or the bit position does not fit in one word;
\* otherwise the error is nil.  A list of the wrong length is left as it was.
C12_HintArgumentValidation ==
    /\ (hint = "powModulusMinusOne" /\ Len(results) >= 1) =>
         IF Len(inputs0) # 1
         THEN /\ results[1].val = Zero
              /\ results[1].err # "nil"
              /\ inputs = inputs0
         ELSE results[1].err = "nil"
    /\ (hint = "ithBit" /\ Len(results) >= 1) =>
         IF Len(inputs0) # 2
         THEN /\ results[1].val = Zero
              /\ results[1].err # "nil"
              /\ inputs = inputs0
         ELSE IF Canon(inputs0[2]) >= Word
              THEN results[1].val = Zero /\ results[1].err # "nil"
              ELSE results[1].err = "nil"

C12_Witness ==
    /\ hint = "powModulusMinusOne"
    /\ Len(inputs0) = 3
    /\ Len(results) = 1
    /\ results[1].err = "powModulusMinusOne expects one input"
    /\ inputs = inputs0


---------------------------------------------------------------------------
(***************************************************************************)
(* Claims about fields.E2.                                                 *)
(***************************************************************************)
E2One == [A0 |-> 1, A1 |-> 0]

\* The product of a and b in Fp[u]/(u^2 - uSquare).
E2Product(a, b, uSquare) ==
    [A0 |-> (a.A0 * b.A0 + uSquare * a.A1 * b.A1) % FpModulus,
     A1 |-> (a.A0 * b.A1 + a.A1 * b.A0) % FpModulus]

\* The norm a0^2 - uSquare*a1^2 of a.
E2Norm(a, uSquare) ==
    (a.A0 * a.A0 + (FpModulus - uSquare) * a.A1 * a.A1) % FpModulus

\* C13: after e.Mul(e1, e2, ext) the receiver holds the product of the values
\* e1 and e2 had before the call, A0 = a0*b0 + uSquare*a1*b1 and
\* A1 = a0*b1 + a1*b0, for every uSquare and also when the receiver is the
\* same object as e1 and/or e2; no other object is written.
C13_MulIsProduct ==
    e2op = "Mul" =>
        /\ e2heap[e2args.e] =
              E2Product(e2heap0[e2args.e1], e2heap0[e2args.e2], e2args.uSquare)
        /\ \A o \in Objs \ {e2args.e} : e2heap[o] = e2heap0[o]

C13_Witness ==
    /\ e2op = "Mul"
    /\ e2args.e = 1 /\ e2args.e1 = 1 /\ e2args.e2 = 1
    /\ e2heap0[1].A0 # 0 /\ e2heap0[1].A1 # 0 /\ e2args.uSquare > 1
    /\ e2heap[1] # e2heap0[1]
    /\ e2heap[1] = E2Product(e2heap0[1], e2heap0[1], e2args.uSquare)

\* C14: for every x and every uSquare, z.Square(x, ext) leaves in z the element
\* that Mul(x, x, ext) yields, A0 = x0^2 + uSquare*x1^2 and A1 = 2*x0*x1.
C14_SquareIsMulBySelf ==
    e2op = "Square" =>
        /\ e2heap[e2args.e] = E2Mul(e2heap0, 3, e2args.e1, e2args.e1, e2args.uSquare)[3]
        /\ e2heap[e2args.e] =
              E2Product(e2heap0[e2args.e1], e2heap0[e2args.e1], e2args.uSquare)

\* C15: for every x of non-zero norm, e.Inverse(x, ext) can be satisfied and
\* leaves in e an element whose product (by Mul) with the value x had before
\* the call is (1, 0), also when e is x itself; when the norm is zero the
\* emitted constraints cannot be satisfied.
C15_InverseIsInverse ==
    e2op = "Inverse" =>
        LET x == e2heap0[e2args.e1]
            inv == e2heap[e2args.e]
        IN  IF E2Norm(x, e2args.uSquare) # 0
            THEN /\ e2sat
                 /\ E2Mul(<<x, inv, E2Zero>>, 3, 1, 2, e2args.uSquare)[3] = E2One
            ELSE ~e2sat

C15_Witness ==
    /\ e2op = "Inverse"
    /\ e2args.e = e2args.e1
    /\ e2heap0[1].A0 # 0 /\ e2heap0[1].A1 # 0
    /\ E2Norm(e2heap0[1], e2args.uSquare) # 0
    /\ e2sat
    /\ e2heap[1] # e2heap0[1]
    /\ E2Product(e2heap0[1], e2heap[1], e2args.uSquare) = E2One


---------------------------------------------------------------------------
(***************************************************************************)
(* Claims about sw.MillerLoop.                                             *)
(***************************************************************************)
\* The operations of an iteration on a bit of AteLoop.
IterationOps(bit) ==
    IF bit = 1
    THEN <<"Square", "DoubleStep", "MulBy034", "AddMixedStep", "MulBy034">>
    ELSE <<"Square", "DoubleStep", "MulBy034">>

\* 2^63 + (n mod 2^63)
WithTopBit(n) ==
    [n EXCEPT ![U64Limbs] = Pow2(U64LimbBits - 1) + (n[U64Limbs] % Pow2(U64LimbBits - 1))]

\* C16: for every 64-bit AteLoop the loop runs 63 iterations, for i from 62
\* down to 0; an iteration does res^2, DoubleStep, MulBy034 in this order,
\* followed by AddMixedStep and a second MulBy034 exactly when bit i of AteLoop
\* is 1; at the end qProj holds 2^63 + (AteLoop mod 2^63) times Q, which is
\* AteLoop times Q if and only if bit 63 of AteLoop is set.
C16_MillerLoopStructure ==
    /\ mlpc = "head" =>
          /\ mlI = LoopBits - 2 - mlIters
          /\ mlIters > 0 => mlOps = IterationOps(U64Bit(mlAte, mlI + 1))
    /\ mlpc \notin {"idle", "head", "returned"} =>
          /\ mlI = LoopBits - 1 - mlIters
          /\ mlI >= 0
    /\ mlpc = "returned" =>
          /\ mlIters = LoopBits - 1
          /\ mlI = -1
          /\ mlMult = WithTopBit(mlAte)
          /\ (mlMult = mlAte) <=> (U64Bit(mlAte, LoopBits - 1) = 1)

C16_Witness ==
    /\ mlpc = "returned"
    /\ mlAte = BLS377AteLoop
    /\ mlIters = LoopBits - 1
    /\ mlMult = mlAte
    /\ mlOps = IterationOps(1)

\* A loop whose top bit is clear: qProj ends on another multiple than AteLoop.
C16_WitnessTopBitClear ==
    /\ mlpc = "returned"
    /\ U64Bit(mlAte, LoopBits - 1) = 0
    /\ U64Bit(mlAte, LoopBits - 2) = 1
    /\ mlMult # mlAte


---------------------------------------------------------------------------
(***************************************************************************)
(* Claims about the code generator.                                        *)
(***************************************************************************)
\* A goroutine has finished: its wg.Done() has run.
Finished(g) == genG[g].st \in {"done", "dying"}

\* Some generation step has failed.
StepFailed == \E g \in Goroutines : genG[g].st = "dying"

\* The files a goroutine at a given position has written.
FilesUpTo(d, step, n) ==
    UNION { StepFiles(d, k, Len(GenSteps[k].files)) : k \in 1..(step - 1) }
      \cup (IF step <= Len(GenSteps) THEN StepFiles(d, step, n) ELSE {})

\* gofmt is started only after all four goroutines have finished; the counter
\* counts the goroutines started and not finished, plus the one about to be
\* started; each goroutine works on its own curve's data and has written
\* exactly the files of its progress, all below that curve's root, so no file
\* is written by two goroutines.
GenOrderingAndIsolation ==
    /\ genProc # "crashed" =>
          /\ genFmt => \A g \in Goroutines : Finished(g)
          /\ genMain \in {"gofmt", "fmt", "end"} => \A g \in Goroutines : Finished(g)
          /\ genWg = Cardinality({g \in Goroutines : genG[g].st = "running"})
                       + (IF genMain = "go" THEN 1 ELSE 0)
    /\ \A g \in Goroutines :
          /\ genG[g].d \in {NoData, datas[g]}
          /\ genG[g].st \in {"running", "dying", "done"} => genG[g].d = datas[g]
          /\ \A f \in genFiles[g] : f[1] = datas[g].RootPath
          /\ genFiles[g] = FilesUpTo(datas[g], genG[g].step, genG[g].n)
          /\ genG[g].st = "done" =>
                genFiles[g] = UNION { StepFiles(datas[g], k, Len(GenSteps[k].files)) :
                                      k \in 1..Len(GenSteps) }
    /\ \A g, h \in Goroutines :
          g # h => /\ datas[g].Curve # datas[h].Curve
                   /\ genFiles[g] \cap genFiles[h] = {}

\* A goroutine has failed part-way through a GenerateF call of several
\* entries, leaving some of its files written, and gofmt has been started.
GenPartialFilesFormatted ==
    /\ genFmt
    /\ genProc = "running"
    /\ \E g \in Goroutines :
          /\ genG[g].st = "dying"
          /\ genG[g].n > 0

\* C17: in every interleaving gofmt is started only after all four goroutines
\* have finished, each curve is generated once from its own copy of
\* templateData into files no other goroutine writes, and if any generation
\* step fails gofmt is never run.
C17_GofmtOnlyAfterCleanGeneration ==
    /\ GenOrderingAndIsolation
    /\ StepFailed => ~genFmt

\* All four goroutines returned and gofmt was started.
GenCleanRun ==
    /\ genFmt
    /\ \A g \in Goroutines : genG[g].st = "done"
    /\ genProc = "exited"

=============================================================================
